---- MODULE Spec2Model ----
(***************************************************************************)
(* The two statecharts of boost_statechart.cpp -- Machine (one state,      *)
(* Greeting) and StopWatch (Active containing Stopped and Running) --      *)
(* together with the run-time behaviour of sc::state_machine that the      *)
(* program relies on: initiate, process_event, terminate, destruction and  *)
(* state_cast.                                                             *)
(* The hierarchy, the reactions and the entry/exit actions (constructors   *)
(* and destructors of the state structs) come from the source file; the    *)
(* dispatch algorithm of the engine follows sections 4.3 and 4.4 of the    *)
(* specification.                                                          *)
(***************************************************************************)
EXTENDS Integers, Sequences, FiniteSets, TLC

\* ---------------------------------------------------------------- bounds
\* std::time(0) is modelled as an integer clock running from 0 to MaxClock.
MaxClock == 3
\* At most MaxEvents calls of process_event in all.
MaxEvents == 3
\* At most MaxTerminate calls of terminate() in all.
MaxTerminate == 2

\* ------------------------------------------------------- static structure
Machines == {"Machine", "StopWatch"}

States == {"Greeting", "Active", "Running", "Stopped"}

Events == {"EvStartStop", "EvReset"}

\* Marks "no such state" / "no reaction".
None == "none"

\* A data member of a state object that is not alive.
NoValue == -1

\* Second template argument of simple_state<>: the state or machine a state
\* is nested in.
Context(s) ==
    CASE s = "Greeting" -> "Machine"
      [] s = "Active"   -> "StopWatch"
      [] s = "Running"  -> "Active"
      [] s = "Stopped"  -> "Active"

\* Second template argument of state_machine<>: the state entered by
\* initiate().
InitialState(m) ==
    CASE m = "Machine"   -> "Greeting"
      [] m = "StopWatch" -> "Active"

\* Active declared without its inner initial state.
InnerInitial_NoInner(s) == None

\* Third template argument of simple_state<>: the inner initial state.
InnerInitial(s) ==
    IF s = "Active" THEN "Stopped" ELSE None

\* EvReset handled in Running by a transition to Stopped.
Reactions_ResetInRunning(s, ev) ==
    CASE s = "Running" /\ ev = "EvReset"     -> "Stopped"
      [] s = "Active"  /\ ev = "EvReset"     -> "Active"
      [] s = "Running" /\ ev = "EvStartStop" -> "Stopped"
      [] s = "Stopped" /\ ev = "EvStartStop" -> "Running"
      [] OTHER                               -> None

\* Running declares the transition of Stopped.
Reactions_BothToRunning(s, ev) ==
    CASE s = "Active"  /\ ev = "EvReset"     -> "Active"
      [] s = "Running" /\ ev = "EvStartStop" -> "Running"
      [] s = "Stopped" /\ ev = "EvStartStop" -> "Running"
      [] OTHER                               -> None

\* Greeting declares a reaction for EvReset.
Reactions_GreetingReacts(s, ev) ==
    CASE s = "Greeting" /\ ev = "EvReset"    -> "Greeting"
      [] s = "Active"  /\ ev = "EvReset"     -> "Active"
      [] s = "Running" /\ ev = "EvStartStop" -> "Stopped"
      [] s = "Stopped" /\ ev = "EvStartStop" -> "Running"
      [] OTHER                               -> None

\* The reactions typedef of each state: the target of the transition the
\* state declares for an event, None when it declares no reaction for it.
Reactions(s, ev) ==
    CASE s = "Active"  /\ ev = "EvReset"     -> "Active"
      [] s = "Running" /\ ev = "EvStartStop" -> "Stopped"
      [] s = "Stopped" /\ ev = "EvStartStop" -> "Running"
      [] OTHER                               -> None

\* No reaction of the program carries a transition action (sc::transition is
\* used with two template arguments only).
CustomAction(s, ev) == None

\* Active derives from IElapsedTime as well.
ImplementsIElapsedTime_ActiveToo(s) == s \in {"Active", "Running", "Stopped"}

\* The states deriving from IElapsedTime.
ImplementsIElapsedTime(s) == s \in {"Running", "Stopped"}

\* ------------------------------------------------------------ hierarchy
RECURSIVE StatePath(_)
\* The statically declared nesting of s, outermost state first, s last.
StatePath(s) ==
    IF Context(s) \in Machines THEN <<s>>
    ELSE Append(StatePath(Context(s)), s)

\* The states s is nested in, outermost first (empty for an outermost state).
ContextPath(s) == SubSeq(StatePath(s), 1, Len(StatePath(s)) - 1)

Depth(s) == Len(StatePath(s))

RECURSIVE InnerDescent(_)
\* The chain of inner initial states below s, down to a leaf.
InnerDescent(s) ==
    IF InnerInitial(s) = None THEN <<>>
    ELSE <<InnerInitial(s)>> \o InnerDescent(InnerInitial(s))

Reverse(q) == [i \in 1..Len(q) |-> q[Len(q) + 1 - i]]

\* Length of the longest common prefix of two sequences.
CommonLen(a, b) ==
    LET n == IF Len(a) < Len(b) THEN Len(a) ELSE Len(b)
        same == {k \in 0..n : \A i \in 1..k : a[i] = b[i]}
    IN  CHOOSE k \in same : \A j \in same : j <= k

\* ------------------------------------------------- entry and exit actions
\* The memory of the state objects and the console: elapsedTime_ of the live
\* Active object, startTime_ of the live Running object, and std::cout.

\* Running::ElapsedTime without the time accumulated in Active.
Running_ElapsedTime_NoCarry(mem, now) ==
    now - mem.startTime_

\* Running::ElapsedTime
Running_ElapsedTime(mem, now) ==
    mem.elapsedTime_ + (now - mem.startTime_)

\* Stopped::ElapsedTime
Stopped_ElapsedTime(mem, now) ==
    mem.elapsedTime_

\* The constructor of state s, run when s is entered.
Entry(s, mem, now) ==
    CASE s = "Greeting" -> [mem EXCEPT !.cout = Append(@, "Hello World!")]
      [] s = "Active"   -> [mem EXCEPT !.elapsedTime_ = 0]
      [] s = "Running"  -> [mem EXCEPT !.startTime_ = now]
      [] OTHER          -> mem

\* ~Running does not store the elapsed time into Active.
Exit_NoStore(s, mem, now) ==
    CASE s = "Greeting" -> [mem EXCEPT !.cout = Append(@, "Bye Bye World!")]
      [] s = "Running"  -> [mem EXCEPT !.startTime_ = NoValue]
      [] s = "Active"   -> [mem EXCEPT !.elapsedTime_ = NoValue]
      [] OTHER          -> mem

\* The destructor of state s, run when s is exited; the members of the
\* destroyed object cease to exist.
Exit(s, mem, now) ==
    CASE s = "Greeting" -> [mem EXCEPT !.cout = Append(@, "Bye Bye World!")]
      [] s = "Running"  -> [mem EXCEPT !.elapsedTime_ = Running_ElapsedTime(mem, now),
                                       !.startTime_ = NoValue]
      [] s = "Active"   -> [mem EXCEPT !.elapsedTime_ = NoValue]
      [] OTHER          -> mem

RECURSIVE EntryAll(_, _, _)
\* The constructors of the states of q, run in the order of q.
EntryAll(q, mem, now) ==
    IF q = <<>> THEN mem
    ELSE EntryAll(Tail(q), Entry(Head(q), mem, now), now)

RECURSIVE ExitAll(_, _, _)
\* The destructors of the states of q, run in the order of q.
ExitAll(q, mem, now) ==
    IF q = <<>> THEN mem
    ELSE ExitAll(Tail(q), Exit(Head(q), mem, now), now)

LogOf(kind, q) == [i \in 1..Len(q) |-> [kind |-> kind, state |-> q[i]]]

\* ------------------------------------------------------------- dispatch
\* The states of the active path p that declare a reaction for ev.
Reacting(p, ev) == {i \in 1..Len(p) : Reactions(p[i], ev) # None}

\* The innermost state of p that declares a reaction for ev: the event is
\* offered to the leaf first and then to each context in turn.
ReactingState(p, ev) ==
    p[CHOOSE i \in Reacting(p, ev) : \A j \in Reacting(p, ev) : j <= i]

\* Number of states of the active path that stay alive in a transition from
\* S to T: those down to the innermost common context of S and T.
KeptLen(S, T) == CommonLen(ContextPath(S), ContextPath(T))

\* The states of a transition exited outermost first.
ExitSeq_OutermostFirst(p, S, T) == SubSeq(p, KeptLen(S, T) + 1, Len(p))

\* The states a transition from S to T exits, innermost first.
ExitSeq(p, S, T) == Reverse(SubSeq(p, KeptLen(S, T) + 1, Len(p)))

\* The entries of a transition stop at the target.
EntrySeq_NoDescent(S, T) ==
    SubSeq(StatePath(T), KeptLen(S, T) + 1, Len(StatePath(T)))

\* The states a transition from S to T enters, outermost first: down to T
\* and then through the inner initial states.
EntrySeq(S, T) ==
    SubSeq(StatePath(T), KeptLen(S, T) + 1, Len(StatePath(T))) \o InnerDescent(T)

\* The states initiate() enters.
InitialSeq(m) == <<InitialState(m)>> \o InnerDescent(InitialState(m))

\* The states of the active path that state_cast< const IElapsedTime & >
\* can return.
StateCast(p) == {i \in 1..Len(p) : ImplementsIElapsedTime(p[i])}

\* ---------------------------------------------------------------- state
VARIABLES
    status,        \* per machine: "uninitiated", "initiated", "terminated",
                   \* or "destructed" once the machine object is gone
    path,          \* per machine: the active states, outermost first
    log,           \* per machine: the entry, exit and transition actions run
    elapsedTime_,  \* Active::elapsedTime_, NoValue while no Active is alive
    startTime_,    \* Running::startTime_, NoValue while no Running is alive
    cout,          \* the lines the state objects wrote to std::cout
    clock,         \* the value std::time(0) returns
    result,        \* outcome of the last call of StopWatch::ElapsedTime()
    nSent,         \* per machine and event: process_event calls so far
    nTerminate,    \* per machine: terminate() calls so far
    runTime        \* clock time spent with Running active since the last
                   \* initiate() or EvReset (history variable)

vars == <<status, path, log, elapsedTime_, startTime_, cout, clock, result,
          nSent, nTerminate, runTime>>

Mem == [elapsedTime_ |-> elapsedTime_, startTime_ |-> startTime_, cout |-> cout]

SetMem(mem) ==
    /\ elapsedTime_' = mem.elapsedTime_
    /\ startTime_' = mem.startTime_
    /\ cout' = mem.cout

\* The number of process_event calls made so far.
TotalSent ==
    nSent["Machine"]["EvStartStop"] + nSent["Machine"]["EvReset"]
      + nSent["StopWatch"]["EvStartStop"] + nSent["StopWatch"]["EvReset"]

\* Machine myMachine; StopWatch myWatch; -- nothing is active after
\* construction.
Init ==
    /\ status = [m \in Machines |-> "uninitiated"]
    /\ path = [m \in Machines |-> <<>>]
    /\ log = [m \in Machines |-> <<>>]
    /\ elapsedTime_ = NoValue
    /\ startTime_ = NoValue
    /\ cout = <<>>
    /\ clock = 0
    /\ result = [ok |-> TRUE, value |-> NoValue]
    /\ nSent = [m \in Machines |-> [ev \in Events |-> 0]]
    /\ nTerminate = [m \in Machines |-> 0]
    /\ runTime = 0

\* m.initiate() on a machine that is not running: enters the initial state
\* and its inner initial states, outermost first.
Initiate(m) ==
    /\ status[m] = "uninitiated"
    /\ status' = [status EXCEPT ![m] = "initiated"]
    /\ path' = [path EXCEPT ![m] = InitialSeq(m)]
    /\ log' = [log EXCEPT ![m] = @ \o LogOf("entry", InitialSeq(m))]
    /\ SetMem(EntryAll(InitialSeq(m), Mem, clock))
    /\ runTime' = IF m = "StopWatch" THEN 0 ELSE runTime
    /\ UNCHANGED <<clock, result, nSent, nTerminate>>

\* m.process_event(ev) on a running machine.
ProcessEvent(m, ev) ==
    /\ status[m] = "initiated"
    /\ TotalSent < MaxEvents
    /\ nSent' = [nSent EXCEPT ![m][ev] = @ + 1]
    /\ IF Reacting(path[m], ev) = {}
       THEN \* no state of the path reacts: the event is discarded
            UNCHANGED <<path, log, elapsedTime_, startTime_, cout, runTime>>
       ELSE LET S == ReactingState(path[m], ev)
                T == Reactions(S, ev)
                exits == ExitSeq(path[m], S, T)
                entries == EntrySeq(S, T)
                act == IF CustomAction(S, ev) = None THEN <<>>
                       ELSE <<[kind |-> "action", state |-> S]>>
            IN  /\ path' = [path EXCEPT ![m] =
                               SubSeq(@, 1, KeptLen(S, T)) \o entries]
                /\ log' = [log EXCEPT ![m] =
                               @ \o LogOf("exit", exits) \o act
                                 \o LogOf("entry", entries)]
                /\ SetMem(EntryAll(entries, ExitAll(exits, Mem, clock), clock))
                /\ runTime' = IF m = "StopWatch" /\ ev = "EvReset"
                              THEN 0 ELSE runTime
    /\ UNCHANGED <<status, clock, result, nTerminate>>

\* m.terminate() exiting the active states outermost first.
Terminate_OutermostFirst(m) ==
    /\ status[m] # "destructed"
    /\ nTerminate["Machine"] + nTerminate["StopWatch"] < MaxTerminate
    /\ nTerminate' = [nTerminate EXCEPT ![m] = @ + 1]
    /\ IF status[m] = "initiated"
       THEN /\ status' = [status EXCEPT ![m] = "terminated"]
            /\ path' = [path EXCEPT ![m] = <<>>]
            /\ log' = [log EXCEPT ![m] = @ \o LogOf("exit", path[m])]
            /\ SetMem(ExitAll(path[m], Mem, clock))
       ELSE UNCHANGED <<status, path, log, elapsedTime_, startTime_, cout>>
    /\ UNCHANGED <<clock, result, nSent, runTime>>

\* m.terminate(): exits the active states, innermost first; nothing happens
\* on a machine that has no active state.
Terminate(m) ==
    /\ status[m] # "destructed"
    /\ nTerminate["Machine"] + nTerminate["StopWatch"] < MaxTerminate
    /\ nTerminate' = [nTerminate EXCEPT ![m] = @ + 1]
    /\ IF status[m] = "initiated"
       THEN /\ status' = [status EXCEPT ![m] = "terminated"]
            /\ path' = [path EXCEPT ![m] = <<>>]
            /\ log' = [log EXCEPT ![m] = @ \o LogOf("exit", Reverse(path[m]))]
            /\ SetMem(ExitAll(Reverse(path[m]), Mem, clock))
       ELSE UNCHANGED <<status, path, log, elapsedTime_, startTime_, cout>>
    /\ UNCHANGED <<clock, result, nSent, runTime>>

\* The machine object is destructed with only its outermost state.
Destruct_OutermostOnly(m) ==
    /\ status[m] # "destructed"
    /\ status' = [status EXCEPT ![m] = "destructed"]
    /\ path' = [path EXCEPT ![m] = <<>>]
    /\ log' = [log EXCEPT ![m] =
                   @ \o LogOf("exit", IF path[m] = <<>> THEN <<>>
                                      ELSE <<path[m][1]>>)]
    /\ SetMem(ExitAll(IF path[m] = <<>> THEN <<>> ELSE <<path[m][1]>>,
                      Mem, clock))
    /\ UNCHANGED <<clock, result, nSent, nTerminate, runTime>>

\* The machine object is destructed outermost state first.
Destruct_OutermostFirst(m) ==
    /\ status[m] # "destructed"
    /\ status' = [status EXCEPT ![m] = "destructed"]
    /\ path' = [path EXCEPT ![m] = <<>>]
    /\ log' = [log EXCEPT ![m] = @ \o LogOf("exit", path[m])]
    /\ SetMem(ExitAll(path[m], Mem, clock))
    /\ UNCHANGED <<clock, result, nSent, nTerminate, runTime>>

\* The machine object goes out of scope at the end of main: all active
\* states are destructed, innermost first.
Destruct(m) ==
    /\ status[m] # "destructed"
    /\ status' = [status EXCEPT ![m] = "destructed"]
    /\ path' = [path EXCEPT ![m] = <<>>]
    /\ log' = [log EXCEPT ![m] = @ \o LogOf("exit", Reverse(path[m]))]
    /\ SetMem(ExitAll(Reverse(path[m]), Mem, clock))
    /\ UNCHANGED <<clock, result, nSent, nTerminate, runTime>>

\* The value StopWatch::ElapsedTime() returns from the state s.
ElapsedTimeOf(s, mem, now) ==
    IF s = "Running" THEN Running_ElapsedTime(mem, now)
    ELSE Stopped_ElapsedTime(mem, now)

\* myWatch.ElapsedTime() reading Active::elapsedTime_ without state_cast.
StopWatch_ElapsedTime_NoCast ==
    /\ status["StopWatch"] # "destructed"
    /\ result' = [ok |-> TRUE, value |-> elapsedTime_]
    /\ UNCHANGED <<status, path, log, elapsedTime_, startTime_, cout, clock,
                   nSent, nTerminate, runTime>>

\* myWatch.ElapsedTime(): state_cast to IElapsedTime and the virtual call;
\* the cast fails when no active state derives from IElapsedTime.
StopWatch_ElapsedTime ==
    /\ status["StopWatch"] # "destructed"
    /\ LET p == path["StopWatch"] IN
       IF StateCast(p) = {}
       THEN result' = [ok |-> FALSE, value |-> NoValue]
       ELSE result' = [ok |-> TRUE,
                       value |-> ElapsedTimeOf(p[CHOOSE i \in StateCast(p) : TRUE],
                                               Mem, clock)]
    /\ UNCHANGED <<status, path, log, elapsedTime_, startTime_, cout, clock,
                   nSent, nTerminate, runTime>>

\* One second passes.
Tick ==
    /\ clock < MaxClock
    /\ clock' = clock + 1
    /\ runTime' = IF \E i \in 1..Len(path["StopWatch"]) :
                         path["StopWatch"][i] = "Running"
                  THEN runTime + 1 ELSE runTime
    /\ UNCHANGED <<status, path, log, elapsedTime_, startTime_, cout, result,
                   nSent, nTerminate>>

Next ==
    \/ \E m \in Machines : Initiate(m)
    \/ \E m \in Machines, ev \in Events : ProcessEvent(m, ev)
    \/ \E m \in Machines : Terminate(m)
    \/ \E m \in Machines : Destruct(m)
    \/ StopWatch_ElapsedTime
    \/ Tick

Spec == Init /\ [][Next]_vars

\* ------------------------------------------------------------ properties
SW == "StopWatch"

\* The innermost active state of machine m.
Leaf(m) == path[m][Len(path[m])]

\* The value myWatch.ElapsedTime() would return in the current state.
Reported == ElapsedTimeOf(Leaf(SW), Mem, clock)

\* This step is a call m.process_event(ev).
Sent(m, ev) == nSent'[m][ev] = nSent[m][ev] + 1

\* The entry, exit and transition actions machine m runs in this step.
Seg(m) == SubSeq(log'[m], Len(log[m]) + 1, Len(log'[m]))

\* The last n actions machine m has run.
LastLog(m, n) == SubSeq(log[m], Len(log[m]) + 1 - n, Len(log[m]))

En(s) == [kind |-> "entry", state |-> s]
Ex(s) == [kind |-> "exit", state |-> s]

\* C1: in every transition process_event takes, the exit actions run first,
\* innermost state first, then the transition action, then the entry
\* actions, outermost state first; the states exited are those of the
\* current path below the innermost common context of source and target,
\* the states entered are those of the new path below it.
C1_ExitActionEntryOrder ==
    [][\A m \in Machines, ev \in Events :
         (Sent(m, ev) /\ Reacting(path[m], ev) # {}) =>
           LET seg == Seg(m)
               S == ReactingState(path[m], ev)
               k == KeptLen(S, Reactions(S, ev))
           IN  /\ \A i, j \in 1..Len(seg) : i < j =>
                    /\ seg[i].kind = "entry" => seg[j].kind = "entry"
                    /\ seg[i].kind = "action" => seg[j].kind = "entry"
                    /\ (seg[i].kind = "exit" /\ seg[j].kind = "exit")
                         => Depth(seg[i].state) > Depth(seg[j].state)
                    /\ (seg[i].kind = "entry" /\ seg[j].kind = "entry")
                         => Depth(seg[i].state) < Depth(seg[j].state)
               /\ {seg[i].state : i \in {j \in 1..Len(seg) : seg[j].kind = "exit"}}
                    = {path[m][i] : i \in (k + 1)..Len(path[m])}
               /\ {seg[i].state : i \in {j \in 1..Len(seg) : seg[j].kind = "entry"}}
                    = {path'[m][i] : i \in (k + 1)..Len(path'[m])}
               /\ SubSeq(path'[m], 1, k) = SubSeq(path[m], 1, k)]_vars

\* A transition that exited two states and entered two has been taken.
C1_Witness ==
    /\ Len(log[SW]) >= 4
    /\ LastLog(SW, 4) = <<Ex("Running"), Ex("Active"), En("Active"), En("Stopped")>>

\* C2: while a machine is initiated its active path is the declared nesting
\* down to one leaf: [Greeting] for Machine, [Active, Stopped] or
\* [Active, Running] for StopWatch, and [Active, Stopped] right after
\* initiate().
C2_ActivePath ==
    /\ status["Machine"] = "initiated" => path["Machine"] = <<"Greeting">>
    /\ status[SW] = "initiated" =>
         path[SW] \in {<<"Active", "Stopped">>, <<"Active", "Running">>}
    /\ (status[SW] = "initiated" /\ \A ev \in Events : nSent[SW][ev] = 0) =>
         path[SW] = <<"Active", "Stopped">>

C2_Witness ==
    /\ status[SW] = "initiated"
    /\ status["Machine"] = "initiated"
    /\ path[SW] = <<"Active", "Running">>
    /\ nSent[SW]["EvReset"] > 0

C4_ElapsedIsRunningTime ==
    status[SW] = "initiated" => Reported = runTime

\* Running for the second time: time carried over from the first run plus
\* time of the current run.
C4_Witness ==
    /\ status[SW] = "initiated"
    /\ Leaf(SW) = "Running"
    /\ elapsedTime_ >= 1
    /\ clock > startTime_
    /\ Reported = elapsedTime_ + (clock - startTime_)

\* The index of the last entry of Active in the log of the stop watch.
LastActiveEntry ==
    CHOOSE i \in 1..Len(log[SW]) :
        /\ log[SW][i] = En("Active")
        /\ \A j \in (i + 1)..Len(log[SW]) : log[SW][j] # En("Active")

\* C5: while Stopped is the active leaf the reported elapsed time does not
\* change when the clock advances; it is the value Running reported when it
\* was exited, and 0 if Running has not been active since the last
\* initiate() or EvReset.
C5_StoppedIsFrozen ==
    /\ [][(status[SW] = "initiated" /\ Leaf(SW) = "Stopped" /\ clock' # clock)
            => Reported' = Reported]_vars
    /\ [][(status[SW] = "initiated" /\ Leaf(SW) = "Running"
             /\ Sent(SW, "EvStartStop"))
            => (Leaf(SW)' = "Stopped" /\ Reported' = Reported)]_vars
    /\ [](( /\ status[SW] = "initiated"
            /\ Leaf(SW) = "Stopped"
            /\ \A j \in (LastActiveEntry + 1)..Len(log[SW]) :
                   log[SW][j] # Ex("Running") )
            => Reported = 0)

\* Stopped after a run of at least one second, with the clock beyond it.
C5_Witness ==
    /\ status[SW] = "initiated"
    /\ Leaf(SW) = "Stopped"
    /\ LastLog(SW, 2) = <<Ex("Running"), En("Stopped")>>
    /\ Reported >= 1
    /\ clock > Reported

\* C6: EvStartStop exits the leaf and enters the other leaf, Active stays;
\* without EvReset the leaf is Running exactly after an odd number of
\* EvStartStop events.
C6_StartStopToggles ==
    /\ [][(status[SW] = "initiated" /\ Sent(SW, "EvStartStop")) =>
            /\ Leaf(SW) = "Stopped" => Leaf(SW)' = "Running"
            /\ Leaf(SW) = "Running" => Leaf(SW)' = "Stopped"
            /\ Seg(SW) = <<Ex(Leaf(SW)), En(Leaf(SW)')>>
            /\ path'[SW][1] = "Active"
            /\ Len(path'[SW]) = 2]_vars
    /\ []((status[SW] = "initiated" /\ nSent[SW]["EvReset"] = 0) =>
            (Leaf(SW) = "Running" <=> nSent[SW]["EvStartStop"] % 2 = 1))

C6_Witness ==
    /\ status[SW] = "initiated"
    /\ nSent[SW]["EvReset"] = 0
    /\ nSent[SW]["EvStartStop"] = 3
    /\ Leaf(SW) = "Running"
    /\ log[SW] = <<En("Active"), En("Stopped"), Ex("Stopped"), En("Running"),
                   Ex("Running"), En("Stopped"), Ex("Stopped"), En("Running")>>

\* C9: an event no state of the active path reacts to -- any event sent to
\* Machine, whose only state Greeting declares no reactions -- changes
\* neither the active path nor the data of the states nor the actions run,
\* and reports no failure.
C9_UnhandledEventDiscarded ==
    [][\A m \in Machines, ev \in Events :
         (Sent(m, ev) /\ (m = "Machine" \/ Reacting(path[m], ev) = {})) =>
            /\ path' = path
            /\ log' = log
            /\ status' = status
            /\ elapsedTime_' = elapsedTime_
            /\ startTime_' = startTime_
            /\ cout' = cout
            /\ result' = result]_vars

\* Both events have been sent to the initiated Machine.
C9_Witness ==
    /\ status["Machine"] = "initiated"
    /\ nSent["Machine"]["EvStartStop"] >= 1
    /\ nSent["Machine"]["EvReset"] >= 1
    /\ path["Machine"] = <<"Greeting">>

\* C10: over the life of Machine the entry of Greeting runs once, at
\* initiate(), its exit runs once, at terminate() or destruction and after
\* the entry, and no other state is entered.
C10_GreetingOnce ==
    /\ status["Machine"] = "uninitiated" => log["Machine"] = <<>>
    /\ status["Machine"] = "initiated" => log["Machine"] = <<En("Greeting")>>
    /\ status["Machine"] \in {"terminated", "destructed"} =>
         log["Machine"] \in {<<>>, <<En("Greeting"), Ex("Greeting")>>}
    /\ cout = [i \in 1..Len(log["Machine"]) |->
                 IF log["Machine"][i].kind = "entry" THEN "Hello World!"
                 ELSE "Bye Bye World!"]

\* Machine was initiated, received events and was destructed.
C10_Witness ==
    /\ status["Machine"] = "destructed"
    /\ log["Machine"] = <<En("Greeting"), Ex("Greeting")>>
    /\ nSent["Machine"]["EvStartStop"] + nSent["Machine"]["EvReset"] >= 2
    /\ cout = <<"Hello World!", "Bye Bye World!">>

\* This step is a call m.terminate().
TerminateCalled(m) == nTerminate'[m] = nTerminate[m] + 1

\* C11: terminate() on an initiated machine exits every state of the active
\* path, innermost first, and leaves the machine terminated with an empty
\* path; on a machine that is terminated or was never initiated it runs no
\* exit action, reports no failure and changes nothing.
C11_TerminateIdempotent ==
    [][\A m \in Machines : TerminateCalled(m) =>
         IF status[m] = "initiated"
         THEN LET seg == Seg(m)
              IN  /\ Len(seg) = Len(path[m])
                  /\ \A i \in 1..Len(seg) : seg[i].kind = "exit"
                  /\ {seg[i].state : i \in 1..Len(seg)}
                       = {path[m][i] : i \in 1..Len(path[m])}
                  /\ \A i, j \in 1..Len(seg) :
                       i < j => Depth(seg[i].state) > Depth(seg[j].state)
                  /\ path'[m] = <<>>
                  /\ status'[m] = "terminated"
                  /\ result' = result
         ELSE UNCHANGED <<status, path, log, elapsedTime_, startTime_, cout,
                          clock, result, nSent, runTime>>]_vars

\* terminate() was called twice on the stop watch, the first time with
\* Running active.
C11_Witness ==
    /\ nTerminate[SW] = 2
    /\ status[SW] = "terminated"
    /\ path[SW] = <<>>
    /\ LastLog(SW, 2) = <<Ex("Running"), Ex("Active")>>

\* C13: StopWatch::ElapsedTime() called while no active state derives from
\* IElapsedTime -- before initiate() or after terminate() -- fails instead
\* of returning a value and changes nothing of the machine.
C13_StateCastFails ==
    [][(result' # result /\ path[SW] = <<>>) =>
         /\ result'.ok = FALSE
         /\ UNCHANGED <<status, path, log, elapsedTime_, startTime_, cout,
                        clock, nSent, nTerminate, runTime>>]_vars

\* ElapsedTime() has failed on the stop watch before initiate().
C13_Witness ==
    /\ status[SW] = "uninitiated"
    /\ result.ok = FALSE
    /\ path[SW] = <<>>

\* C14: EvReset, a transition from Active to Active, exits the leaf, exits
\* Active, enters a new Active with elapsed time 0 and enters Stopped,
\* whether the leaf was Stopped or Running.
C14_ResetReentersActive ==
    [][(status[SW] = "initiated" /\ Sent(SW, "EvReset")) =>
         /\ Seg(SW) = <<Ex(Leaf(SW)), Ex("Active"), En("Active"), En("Stopped")>>
         /\ path'[SW] = <<"Active", "Stopped">>
         /\ elapsedTime_' = 0]_vars

\* EvReset has been taken once from Stopped and once from Running.
C14_Witness ==
    /\ \E i \in 1..(Len(log[SW]) - 3) :
         SubSeq(log[SW], i, i + 3)
           = <<Ex("Stopped"), Ex("Active"), En("Active"), En("Stopped")>>
    /\ \E i \in 1..(Len(log[SW]) - 3) :
         SubSeq(log[SW], i, i + 3)
           = <<Ex("Running"), Ex("Active"), En("Active"), En("Stopped")>>

\* C15: the innermost state declaring a reaction handles the event: the
\* leaves declare none for EvReset, which their context Active handles (it
\* is exited and entered again); EvStartStop is handled by the leaf, Active
\* declares no reaction for it and is not touched.
C15_InnermostReactionHandles ==
    /\ [](status[SW] = "initiated" =>
            /\ Reactions(Leaf(SW), "EvReset") = None
            /\ Context(Leaf(SW)) = "Active"
            /\ ReactingState(path[SW], "EvReset") = "Active"
            /\ ReactingState(path[SW], "EvStartStop") = Leaf(SW)
            /\ Reacting(path[SW], "EvStartStop") = {Len(path[SW])})
    /\ [][(status[SW] = "initiated" /\ Sent(SW, "EvReset")) =>
            /\ \E i \in 1..Len(Seg(SW)) : Seg(SW)[i] = Ex("Active")
            /\ \E i \in 1..Len(Seg(SW)) : Seg(SW)[i] = En("Active")]_vars
    /\ [][(status[SW] = "initiated" /\ Sent(SW, "EvStartStop")) =>
            /\ Leaf(SW)' = Reactions(Leaf(SW), "EvStartStop")
            /\ \A i \in 1..Len(Seg(SW)) : Seg(SW)[i].state # "Active"]_vars

\* Both events have been handled, EvReset with Running active.
C15_Witness ==
    /\ status[SW] = "initiated"
    /\ nSent[SW]["EvStartStop"] >= 1
    /\ nSent[SW]["EvReset"] >= 1
    /\ \E i \in 1..(Len(log[SW]) - 1) :
         SubSeq(log[SW], i, i + 1) = <<Ex("Running"), Ex("Active")>>

\* The number of occurrences of e in the sequence q.
Count(q, e) == Cardinality({i \in 1..Len(q) : q[i] = e})

OnPath(m, X) == \E i \in 1..Len(path[m]) : path[m][i] = X

\* C16: for every machine and state X, entries of X minus exits of X is 1
\* when X is on the active path and 0 otherwise, and before every exit of X
\* there are more entries than exits of X.
C16_EntryExitBalanced ==
    \A m \in Machines, X \in States :
        /\ Count(log[m], En(X)) - Count(log[m], Ex(X))
             = IF OnPath(m, X) THEN 1 ELSE 0
        /\ \A i \in 1..Len(log[m]) :
             log[m][i] = Ex(X) =>
               Count(SubSeq(log[m], 1, i - 1), En(X))
                 > Count(SubSeq(log[m], 1, i - 1), Ex(X))
        /\ Cardinality({i \in 1..Len(path[m]) : path[m][i] = X}) <= 1

\* The stop watch was reset, started and destructed: Active was entered and
\* exited twice.
C16_Witness ==
    /\ status[SW] = "destructed"
    /\ Count(log[SW], En("Active")) = 2
    /\ Count(log[SW], Ex("Active")) = 2
    /\ Count(log[SW], En("Running")) = 1
    /\ Count(log[SW], Ex("Running")) = 1

\* C17: a transition whose target T is an ancestor of the active leaf runs
\* exits from the leaf up to a state at or above T, and then only entries:
\* the default child of the innermost state kept (the initial state of the
\* machine when none is kept) and from there the inner initial states down
\* to a state without inner initial state.
C17_OutwardTransition ==
    [][\A m \in Machines, ev \in Events :
         ( /\ status[m] = "initiated"
           /\ Sent(m, ev)
           /\ Reacting(path[m], ev) # {}
           /\ \E i \in 1..(Len(path[m]) - 1) :
                path[m][i] = Reactions(ReactingState(path[m], ev), ev) ) =>
           LET seg == Seg(m)
               p == path[m]
               T == Reactions(ReactingState(p, ev), ev)
               nEx == Cardinality({i \in 1..Len(seg) : seg[i].kind = "exit"})
               k == Len(p) - nEx
               ents == SubSeq(seg, nEx + 1, Len(seg))
           IN  /\ nEx >= 1
               /\ \A i \in 1..nEx : seg[i] = Ex(p[Len(p) + 1 - i])
               /\ k < Depth(T)
               /\ Len(ents) >= 1
               /\ \A i \in 1..Len(ents) : ents[i].kind = "entry"
               /\ ents[1].state = IF k = 0 THEN InitialState(m)
                                  ELSE InnerInitial(p[k])
               /\ \A i \in 1..(Len(ents) - 1) :
                    ents[i + 1].state = InnerInitial(ents[i].state)
               /\ InnerInitial(ents[Len(ents)].state) = None
               /\ path'[m] = SubSeq(p, 1, k)
                               \o [i \in 1..Len(ents) |-> ents[i].state]]_vars

\* The transition to Active was taken with Running as the leaf, as the
\* second event.
C17_Witness ==
    /\ status[SW] = "initiated"
    /\ nSent[SW]["EvStartStop"] = 1
    /\ nSent[SW]["EvReset"] = 1
    /\ log[SW] = <<En("Active"), En("Stopped"), Ex("Stopped"), En("Running"),
                   Ex("Running"), Ex("Active"), En("Active"), En("Stopped")>>

\* C18: whenever the exit action of Running (or Stopped) runs, Active is
\* alive: it has been entered once more than exited; Active is exited only
\* when every entry of a leaf has been matched by its exit; and
\* elapsedTime_ holds a value exactly while an Active object is alive, so
\* ~Running never writes into a dead Active.
C18_ContextAliveAtExit ==
    /\ \A i \in 1..Len(log[SW]) :
         LET before == SubSeq(log[SW], 1, i - 1) IN
         /\ log[SW][i] \in {Ex("Running"), Ex("Stopped")} =>
              Count(before, En("Active")) = Count(before, Ex("Active")) + 1
         /\ log[SW][i] = Ex("Active") =>
              /\ Count(before, En("Running")) = Count(before, Ex("Running"))
              /\ Count(before, En("Stopped")) = Count(before, Ex("Stopped"))
    /\ OnPath(SW, "Active") => elapsedTime_ >= 0
    /\ ~OnPath(SW, "Active") => elapsedTime_ = NoValue

\* Running has been exited by EvStartStop and by the destruction of the
\* machine, the second time after the clock had advanced.
C18_Witness ==
    /\ status[SW] = "destructed"
    /\ Len(log[SW]) >= 2
    /\ LastLog(SW, 2) = <<Ex("Running"), Ex("Active")>>
    /\ \E i \in 1..(Len(log[SW]) - 1) :
         SubSeq(log[SW], i, i + 1) = <<Ex("Running"), En("Stopped")>>
    /\ clock >= 1

\* C19: in an initiated StopWatch exactly one active state derives from
\* IElapsedTime, the leaf, so ElapsedTime() succeeds and returns the value
\* of the leaf.
C19_OneElapsedTimeState ==
    /\ [](status[SW] = "initiated" =>
            /\ StateCast(path[SW]) = {Len(path[SW])}
            /\ Leaf(SW) \in {"Stopped", "Running"}
            /\ ~ImplementsIElapsedTime("Active"))
    /\ [][(status[SW] = "initiated" /\ result' # result) =>
            (result'.ok /\ result'.value = Reported)]_vars

\* ElapsedTime() has returned a positive value from Running.
C19_Witness ==
    /\ status[SW] = "initiated"
    /\ Leaf(SW) = "Running"
    /\ result.ok
    /\ result.value >= 1
    /\ result.value = Reported

\* C20: the elapsed time reported by an initiated StopWatch is never
\* negative; clock ticks and EvStartStop never lower it, EvReset sets it
\* to 0.
C20_ElapsedMonotone ==
    /\ [](status[SW] = "initiated" => Reported >= 0)
    /\ [][(status[SW] = "initiated" /\ status'[SW] = "initiated"
             /\ ~Sent(SW, "EvReset")) => Reported' >= Reported]_vars
    /\ [][(status[SW] = "initiated" /\ Sent(SW, "EvReset")) => Reported' = 0]_vars

\* Stopped after two seconds of running and two EvStartStop.
C20_Witness ==
    /\ status[SW] = "initiated"
    /\ nSent[SW]["EvStartStop"] = 2
    /\ nSent[SW]["EvReset"] = 0
    /\ Leaf(SW) = "Stopped"
    /\ Reported = 2
    /\ clock = 3

====
